---- MODULE Spec2Model ----
(***************************************************************************)
(* Model of src/main.py: the sector-rotation pipeline (freshness gate,     *)
(* 200-row deviation, vector aggregation, trajectory sampling, phase       *)
(* classification, chart file and page update).                            *)
(*                                                                         *)
(* Numbers.  Dates are day numbers (day 0 is a Monday).  Prices are        *)
(* positive integers.  Python floats are modelled in fixed point:          *)
(*   - a deviation is an integer count of 1/DevScale percent,              *)
(*   - cos/sin are integers in 1/TrigScale, tabulated every 15 degrees     *)
(*     (all clock positions of SECTORS fall on that grid),                 *)
(*   - a coordinate returned by calculate_vector is the numerator of a     *)
(*     fraction over CoordDen,                                             *)
(*   - a rounded coordinate is an integer count of hundredths.             *)
(* NaN (a float) is the value NaN below; every operation that meets it     *)
(* propagates it the way numpy/pandas do.                                  *)
(***************************************************************************)
EXTENDS Integers, Sequences, FiniteSets, TLC

(* ---------------------------------------------------------------------- *)
(* 1. Constants of the program                                             *)
(* ---------------------------------------------------------------------- *)

\* float('nan'): the value of a missing price and of anything computed from it
NaN == -999999999

\* calculate_vector's "no result" (None, None)
None == [none |-> TRUE]

\* SECTORS, in source order; clock is in tenths of an hour (10.5 -> 105)
SECTORS ==
  << [code |-> "XLK",  clock |-> 105], [code |-> "XLY",  clock |-> 115],
     [code |-> "XLC",  clock |-> 95],  [code |-> "XLI",  clock |-> 15],
     [code |-> "XLB",  clock |-> 5],   [code |-> "XLF",  clock |-> 25],
     [code |-> "XLE",  clock |-> 45],  [code |-> "XLRE", clock |-> 55],
     [code |-> "XLV",  clock |-> 75],  [code |-> "XLP",  clock |-> 65],
     [code |-> "XLU",  clock |-> 85] >>

Codes == { SECTORS[k].code : k \in 1..Len(SECTORS) }

\* PHASES, in insertion order (the order the classification loop visits);
\* the names stand for the labels of the source: Recovery, Expansion,
\* Slowdown, Recession in the order the source lists them
PHASES ==
  << [name |-> "Recovery",  x_sign |-> -1, y_sign |-> 1],
     [name |-> "Expansion", x_sign |-> 1,  y_sign |-> 1],
     [name |-> "Slowdown",  x_sign |-> 1,  y_sign |-> -1],
     [name |-> "Recession", x_sign |-> -1, y_sign |-> -1] >>

\* the initial value of current_phase ("不明")
Unknown == "Unknown"

\* the gate aborts when diff > MaxDiff
MaxDiff == 1
\* minimum number of rows on or before the as-of date
MinRows == 200
\* length of the moving-average window (iloc[-200:])
MaLen == 200
\* timedelta(days=365)
Lookback == 365
\* freq='10D'
Cadence == 10
\* scale_factor = 3.5 = ScaleNum / ScaleDen
ScaleNum == 35
ScaleDen == 10
\* "* 100" of the deviation (percent)
Percent == 100
\* round(v, 2): hundredths
RoundPlaces == 100

\* fixed-point resolutions of the model
DevScale == 100
TrigScale == 1000
CoordDen == ScaleNum * TrigScale * DevScale

(* ---------------------------------------------------------------------- *)
(* 2. Arithmetic helpers                                                   *)
(* ---------------------------------------------------------------------- *)

\* n / d rounded to the nearest integer, ties to even (d > 0): Python's round
RoundDiv(n, d) ==
  LET q == n \div d
      r == n - q * d
  IN  IF 2 * r < d THEN q
      ELSE IF 2 * r > d THEN q + 1
      ELSE IF q % 2 = 0 THEN q ELSE q + 1

\* round(v, 2) of a coordinate v = c / CoordDen, in hundredths; round(nan) = nan
Round2(c) ==
  IF c = NaN THEN NaN ELSE RoundDiv(c, CoordDen \div RoundPlaces)

\* cos of a whole multiple of 15 degrees, in 1/TrigScale
CosTable ==
  << 1000, 966, 866, 707, 500, 259, 0, -259, -500, -707, -866, -966,
     -1000, -966, -866, -707, -500, -259, 0, 259, 500, 707, 866, 966 >>

Cos(deg) == CosTable[((deg % 360) \div 15) + 1]
Sin(deg) == Cos(deg - 90)

\* clock_to_rad: degree = 90 - clock_hour * 30 (the angle is kept in degrees;
\* Cos and Sin take degrees)
clock_to_rad(clock) == 90 - (clock * 30) \div 10

(* ---------------------------------------------------------------------- *)
(* 3. The price table                                                      *)
(* ---------------------------------------------------------------------- *)
(* A table is [index |-> sequence of dates, cols |-> [code -> sequence of  *)
(* prices]]: a pandas DataFrame with a DatetimeIndex and one column per    *)
(* ticker.  A feed describes what the data provider returns.               *)

\* price every instrument trades at unless the feed says otherwise
BasePrice == 2000
\* the feed has up to MinRows + ExtraRows rows around the row threshold
ExtraRows == 1
\* the clock is at most MaxLag days past the latest bar
MaxLag == 3

\* the date of the i-th daily bar: Monday to Friday, no bars at weekends
BarDate(i) == 7 * ((i - 1) \div 5) + ((i - 1) % 5)

\* the Close column the provider returns for one ticker
RawCol(feed, code) ==
  [ i \in 1..feed.rows |->
      IF code \in feed.dead THEN NaN
      ELSE IF code \in feed.late /\ i <= feed.rows - feed.lateObs THEN NaN
      ELSE IF code \in feed.late /\ i = feed.rows - feed.gapBack THEN NaN
      ELSE IF code = feed.mover /\ i > feed.rows - feed.stepBack THEN feed.p1
      ELSE BasePrice ]

\* yf.download(tickers, period="2y", interval="1d")['Close']
Download(feed) ==
  [ index |-> [ i \in 1..feed.rows |-> BarDate(i) ],
    cols  |-> [ code \in Codes \ feed.absent |-> RawCol(feed, code) ] ]

\* the last position in lo..hi where col has a value, or 0
RECURSIVE LastValid(_, _, _)
LastValid(col, lo, hi) ==
  IF lo > hi THEN 0
  ELSE IF lo = hi THEN (IF col[lo] = NaN THEN 0 ELSE lo)
  ELSE LET mid == (lo + hi) \div 2
           r == LastValid(col, mid + 1, hi)
       IN  IF r # 0 THEN r ELSE LastValid(col, lo, mid)

\* the first position in lo..hi where col has a value, or 0
RECURSIVE FirstValid(_, _, _)
FirstValid(col, lo, hi) ==
  IF lo > hi THEN 0
  ELSE IF lo = hi THEN (IF col[lo] = NaN THEN 0 ELSE lo)
  ELSE LET mid == (lo + hi) \div 2
           l == FirstValid(col, lo, mid)
       IN  IF l # 0 THEN l ELSE FirstValid(col, mid + 1, hi)

\* Series.ffill(): a missing value takes the last valid value before it
Ffill(col) ==
  [ i \in 1..Len(col) |->
      LET k == LastValid(col, 1, i) IN IF k = 0 THEN NaN ELSE col[k] ]

\* Series.bfill(): a missing value takes the next valid value after it
Bfill(col) ==
  [ i \in 1..Len(col) |->
      LET k == FirstValid(col, i, Len(col)) IN IF k = 0 THEN NaN ELSE col[k] ]

\* get_market_data: download, then df.ffill().bfill()
get_market_data(feed) ==
  LET raw == Download(feed)
  IN  [ index |-> raw.index,
        cols  |-> [ code \in DOMAIN raw.cols |-> Bfill(Ffill(raw.cols[code])) ] ]

(* ---------------------------------------------------------------------- *)
(* 4. calculate_vector                                                     *)
(* ---------------------------------------------------------------------- *)

\* df[df.index <= target_date]: the positions of the rows kept, in order
DataUntil(df, target_date) ==
  LET Keep(i) == df.index[i] <= target_date
  IN  SelectSeq([ i \in 1..Len(df.index) |-> i ], Keep)

\* data_until.iloc[-200:]: the positions of the last MaLen rows kept
Window(df, target_date) ==
  LET data_until == DataUntil(df, target_date)
      n == Len(data_until)
  IN  SubSeq(data_until, IF n > MaLen THEN n - MaLen + 1 ELSE 1, n)

\* sum and count of the values of col at positions pos[lo..hi], NaN skipped
RECURSIVE SumOver(_, _, _, _)
SumOver(col, pos, lo, hi) ==
  IF lo > hi THEN [sum |-> 0, cnt |-> 0]
  ELSE IF lo = hi
       THEN (IF col[pos[lo]] = NaN THEN [sum |-> 0, cnt |-> 0]
             ELSE [sum |-> col[pos[lo]], cnt |-> 1])
  ELSE LET mid == (lo + hi) \div 2
           l == SumOver(col, pos, lo, mid)
           r == SumOver(col, pos, mid + 1, hi)
       IN  [sum |-> l.sum + r.sum, cnt |-> l.cnt + r.cnt]

\* (current_prices - ma200) / ma200 * 100 for one column, in 1/DevScale
\* percent; ma200 = sum / cnt is the mean of the window with NaN skipped
Deviation(col, data_until, window) ==
  LET cur == col[data_until[Len(data_until)]]
      m == SumOver(col, window, 1, Len(window))
  IN  IF cur = NaN \/ m.cnt = 0 THEN NaN
      ELSE RoundDiv(Percent * DevScale * (cur * m.cnt - m.sum), m.sum)

\* a loop that also leaves out the sectors whose deviation is NaN
Skipped_NaN(deviations, code) ==
  code \notin DOMAIN deviations \/ deviations[code] = NaN

\* "if code not in deviations: continue": a sector is left out of the sums
\* only when the table has no column for it
Skipped(deviations, code) == code \notin DOMAIN deviations

\* a + b on floats
FAdd(a, b) == IF a = NaN \/ b = NaN THEN NaN ELSE a + b
\* a * b on floats
FMul(a, b) == IF a = NaN \/ b = NaN THEN NaN ELSE a * b

\* deviations: one value per column of the table
Deviations(df, target_date) ==
  LET data_until == DataUntil(df, target_date)
      window == Window(df, target_date)
  IN  [ code \in DOMAIN df.cols |->
          Deviation(df.cols[code], data_until, window) ]

\* the loop over SECTORS from sector k on, entered with the running totals;
\* (total_x, total_y) are in 1/(DevScale * TrigScale), used is the set of
\* sectors whose term has been added
RECURSIVE Totals(_, _, _, _, _)
Totals(deviations, k, total_x, total_y, used) ==
  IF k > Len(SECTORS) THEN [x |-> total_x, y |-> total_y, used |-> used]
  ELSE IF Skipped(deviations, SECTORS[k].code)
       THEN Totals(deviations, k + 1, total_x, total_y, used)
       ELSE LET strength == deviations[SECTORS[k].code]
                rad == clock_to_rad(SECTORS[k].clock)
                x == FMul(strength, Cos(rad))
                y == FMul(strength, Sin(rad))
            IN  Totals(deviations, k + 1, FAdd(total_x, x), FAdd(total_y, y),
                       used \cup {SECTORS[k].code})

\* the row-count test with "<=": 200 rows are not enough
TooShort_LE(n) == n <= MinRows

\* the row-count test of calculate_vector: not enough rows -> (None, None)
TooShort(n) == n < MinRows

\* calculate_vector(df, target_date): None, or the vector with coordinates
\* as numerators over CoordDen (total / 3.5 = total * ScaleDen / ScaleNum).
\* The result also records the deviations and the sectors summed.
calculate_vector(df, target_date) ==
  IF TooShort(Len(DataUntil(df, target_date))) THEN None
  ELSE LET t == Totals(Deviations(df, target_date), 1, 0, 0, {})
       IN  [ none |-> FALSE,
             x |-> FMul(t.x, ScaleDen),
             y |-> FMul(t.y, ScaleDen),
             used |-> t.used,
             deviations |-> Deviations(df, target_date) ]

(* ---------------------------------------------------------------------- *)
(* 5. Pure pieces of main                                                  *)
(* ---------------------------------------------------------------------- *)

\* "no date": valid_date when the loop body ends at "continue"
NoDate == -1000000

\* check_market_open with the comparison "diff >= 1"
check_market_open_GE(latest_date, today) ==
  LET diff == today - latest_date
  IN  IF diff >= MaxDiff THEN FALSE ELSE TRUE

\* check_market_open(latest_date, today): False (stale) when diff > 1
check_market_open(latest_date, today) ==
  LET diff == today - latest_date
  IN  IF diff > MaxDiff THEN FALSE ELSE TRUE

\* a range that leaves out its start
date_range_Open(start_date, end_date) ==
  [ k \in 1..((end_date - start_date) \div Cadence) |->
      start_date + Cadence * k ]

\* pd.date_range(start=start_date, end=end_date, freq='10D')
date_range(start_date, end_date) ==
  [ k \in 1..((end_date - start_date) \div Cadence + 1) |->
      start_date + Cadence * (k - 1) ]

\* the target dates of main: from end_date - 365 days to end_date
TargetDates(end_date) == date_range(end_date - Lookback, end_date)

\* past_matches = df.index[df.index <= d]
PastMatches(df, d) ==
  LET Past(t) == t <= d
  IN  SelectSeq(df.index, Past)

\* a resolution to the next available date instead of the previous one
ValidDate_Next(df, d) ==
  LET Later(t) == t >= d
      later == SelectSeq(df.index, Later)
  IN  IF Len(later) = 0 THEN NoDate ELSE later[1]

\* valid_date of one loop iteration: d when the index has it, else the last
\* of past_matches, else NoDate (continue)
ValidDate(df, d) ==
  IF \E k \in 1..Len(df.index) : df.index[k] = d THEN d
  ELSE LET past_matches == PastMatches(df, d)
       IN  IF Len(past_matches) = 0 THEN NoDate
           ELSE past_matches[Len(past_matches)]

\* {"x": round(x, 2), "y": round(y, 2)}
Point(v) == [x |-> Round2(v.x), y |-> Round2(v.y)]

\* a three-valued sign: zero is neither positive nor negative
Sign_Strict(v) == IF v = NaN \/ v < 0 THEN -1 ELSE IF v > 0 THEN 1 ELSE 0

\* 1 if v >= 0 else -1 (nan >= 0 is False)
Sign(v) == IF v # NaN /\ v >= 0 THEN 1 ELSE -1

\* the loop over PHASES.items() from entry k on, with its break
RECURSIVE MatchPhase(_, _, _)
MatchPhase(k, c_x_sign, c_y_sign) ==
  IF k > Len(PHASES) THEN Unknown
  ELSE IF PHASES[k].x_sign = c_x_sign /\ PHASES[k].y_sign = c_y_sign
       THEN PHASES[k].name
       ELSE MatchPhase(k + 1, c_x_sign, c_y_sign)

\* current_phase for the coordinates (x, y)
Classify(x, y) == MatchPhase(1, Sign(x), Sign(y))

(* ---------------------------------------------------------------------- *)
(* 6. What the data provider may return                                    *)
(* ---------------------------------------------------------------------- *)

RowChoices == {0, 150, 261, 262, 470} \cup ((MinRows - 1)..(MinRows + ExtraRows))

NoMove == [mover |-> "XLK", p1 |-> BasePrice, stepBack |-> 0,
           late |-> {}, lateObs |-> 0, gapBack |-> 0,
           dead |-> {}, absent |-> {}]

Shapes ==
  { NoMove,
    \* XLB closes one tick lower on the latest bar
    [NoMove EXCEPT !.mover = "XLB", !.p1 = BasePrice - 1, !.stepBack = 1],
    \* XLK has traded 5% higher for 120 bars
    [NoMove EXCEPT !.p1 = BasePrice + 100, !.stepBack = 120],
    \* only XLK has a long history; the others have 150 bars, one of them
    \* missing, and XLE has traded lower for 60 bars
    [NoMove EXCEPT !.mover = "XLE", !.p1 = BasePrice - 80, !.stepBack = 60,
                   !.late = Codes \ {"XLK"}, !.lateObs = 150, !.gapBack = 10],
    \* the download of XLE failed: a column of NaN
    [NoMove EXCEPT !.p1 = BasePrice + 100, !.stepBack = 120, !.dead = {"XLE"}],
    \* the table has no XLU column
    [NoMove EXCEPT !.mover = "XLV", !.p1 = BasePrice + 60, !.stepBack = 40,
                   !.absent = {"XLU"}] }

Feeds == { [rows |-> r] @@ s : r \in RowChoices, s \in Shapes }

\* number of real (not NaN) closes the provider gave for code on or before d
Observations(f, code, d) ==
  IF code \in f.absent THEN 0
  ELSE Cardinality({ i \in 1..f.rows :
                       BarDate(i) <= d /\ RawCol(f, code)[i] # NaN })

(* ---------------------------------------------------------------------- *)
(* 7. main as a state machine                                              *)
(* ---------------------------------------------------------------------- *)

VARIABLES
  pc,              \* where main is
  exit_status,     \* the argument of sys.exit once pc = "done"
  feed,            \* what the provider returned (input of get_market_data)
  df,              \* the table main works on
  today,           \* datetime.now(timezone.utc).date() read by the gate: a
                   \* local of check_market_open, gone (NoDate) once main
                   \* has gone on to the loop
  gate,            \* "pending", "open" or "stale": result of check_market_open
  dates,           \* the target dates
  i,               \* position of the loop "for d in dates"
  target,          \* d of the last loop iteration
  asof,            \* date passed to the last calculate_vector call, or NoDate
  vec,             \* result of the last calculate_vector call
  calls,           \* number of calculate_vector calls so far
  history_points,  \* the trajectory
  history_asof,    \* the as-of date of each element of history_points
  current_point,   \* the rounded current point
  current_phase,   \* the phase label
  chart,           \* public/index.html
  page             \* the request sent to the page API

vars == << pc, exit_status, feed, df, today, gate, dates, i, target, asof, vec,
           calls, history_points, history_asof, current_point, current_phase,
           chart, page >>

NoFeed == [rows |-> 0] @@ NoMove
NoTable == [index |-> << >>, cols |-> << >>]
NoPoint == [x |-> NaN, y |-> NaN]

Init ==
  /\ pc = "load_secrets"
  /\ exit_status = 0
  /\ feed = NoFeed
  /\ df = NoTable
  /\ today = NoDate
  /\ gate = "pending"
  /\ dates = << >>
  /\ i = 1
  /\ target = NoDate
  /\ asof = NoDate
  /\ vec = None
  /\ calls = 0
  /\ history_points = << >>
  /\ history_asof = << >>
  /\ current_point = NoPoint
  /\ current_phase = Unknown
  /\ chart = [written |-> FALSE]
  /\ page = [sent |-> FALSE]

\* sys.exit(code)
Exit(code) == pc' = "done" /\ exit_status' = code

\* sys.exit(0) of a stale gate: "not an error, the update is skipped"
MarketClosedExit == 0
\* a failed calculation reported with the status of a skipped update
CalculationFailedExit_Zero == MarketClosedExit

\* sys.exit(1) after "Error: Calculation failed."
CalculationFailedExit == 1
\* every other sys.exit(1), and an uncaught exception
ErrorExit == 1

\* main going on whatever the gate said
GateNext_Ignored(open) == "sample"

\* "if not check_market_open(...): sys.exit(0)": where main goes after the gate
GateNext(open) == IF open THEN "sample" ELSE "done"

\* the current point put in front of the trajectory
CloseTrajectory_Front(points, point) == << point >> \o points

\* history_points.append(current_point)
CloseTrajectory(points, point) == Append(points, point)

\* config = load_secrets(): exits 1 when APP_CONFIG is unset or not JSON
LoadSecrets ==
  /\ pc = "load_secrets"
  /\ \E app_config \in {"unset", "invalid", "ok"} :
       IF app_config = "ok"
       THEN pc' = "fetch" /\ UNCHANGED exit_status
       ELSE Exit(ErrorExit)
  /\ UNCHANGED << feed, df, today, gate, dates, i, target, asof, vec, calls,
                  history_points, history_asof, current_point, current_phase,
                  chart, page >>

\* df = get_market_data(), or the download raises and main exits 1
GetMarketData ==
  /\ pc = "fetch"
  /\ \/ /\ Exit(ErrorExit)
        /\ UNCHANGED << feed, df >>
     \/ \E f \in Feeds :
          /\ feed' = f
          /\ df' = get_market_data(f)
          /\ pc' = "gate"
          /\ UNCHANGED exit_status
  /\ UNCHANGED << today, gate, dates, i, target, asof, vec, calls,
                  history_points, history_asof, current_point, current_phase,
                  chart, page >>

\* df.index[-1]
Latest(t) == t.index[Len(t.index)]

\* lines 336-349: the gate, then the target dates.  An empty table makes
\* df.index[-1] raise (exit status 1).
CheckMarket ==
  /\ pc = "gate"
  /\ IF Len(df.index) = 0
     THEN /\ Exit(ErrorExit)
          /\ UNCHANGED << today, gate, dates >>
     ELSE \E now \in (Latest(df) - 1)..(Latest(df) + MaxLag) :
            LET open == check_market_open(Latest(df), now)
            IN  /\ today' = now
                /\ gate' = IF open THEN "open" ELSE "stale"
                /\ pc' = GateNext(open)
                /\ IF pc' = "done"
                   THEN exit_status' = MarketClosedExit /\ UNCHANGED dates
                   ELSE dates' = TargetDates(Latest(df)) /\ UNCHANGED exit_status
  /\ UNCHANGED << feed, df, i, target, asof, vec, calls, history_points,
                  history_asof, current_point, current_phase, chart, page >>

\* one iteration of "for d in dates" (lines 351-362)
Sample ==
  /\ pc = "sample"
  /\ i <= Len(dates)
  /\ LET d == dates[i]
         valid_date == ValidDate(df, d)
     IN  /\ target' = d
         /\ asof' = valid_date
         /\ IF valid_date = NoDate
            THEN UNCHANGED << vec, calls, history_points, history_asof >>
            ELSE /\ vec' = calculate_vector(df, valid_date)
                 /\ calls' = calls + 1
                 /\ IF vec'.none
                    THEN UNCHANGED << history_points, history_asof >>
                    ELSE /\ history_points' = Append(history_points, Point(vec'))
                         /\ history_asof' = Append(history_asof, valid_date)
  /\ i' = i + 1
  /\ today' = NoDate
  /\ UNCHANGED << pc, exit_status, feed, df, gate, dates, current_point,
                  current_phase, chart, page >>

\* lines 364-373: the current point, appended to the trajectory
Current ==
  /\ pc = "sample"
  /\ i > Len(dates)
  /\ vec' = calculate_vector(df, Latest(df))
  /\ asof' = Latest(df)
  /\ calls' = calls + 1
  /\ IF vec'.none
     THEN /\ Exit(CalculationFailedExit)
          /\ UNCHANGED << current_point, history_points, history_asof >>
     ELSE /\ current_point' = Point(vec')
          /\ history_points' = CloseTrajectory(history_points, current_point')
          /\ history_asof' = Append(history_asof, Latest(df))
          /\ pc' = "classify"
          /\ UNCHANGED exit_status
  /\ UNCHANGED << feed, df, today, gate, dates, i, target, current_phase,
                  chart, page >>

\* lines 375-384: the phase of (curr_x, curr_y)
ClassifyPhase ==
  /\ pc = "classify"
  /\ current_phase' = Classify(vec.x, vec.y)
  /\ pc' = "write"
  /\ UNCHANGED << exit_status, feed, df, today, gate, dates, i, target, asof,
                  vec, calls, history_points, history_asof, current_point,
                  chart, page >>

\* lines 386-393: public/index.html
WriteChart ==
  /\ pc = "write"
  /\ chart' = [written |-> TRUE, history |-> history_points,
               current |-> current_point]
  /\ pc' = "publish"
  /\ UNCHANGED << exit_status, feed, df, today, gate, dates, i, target, asof,
                  vec, calls, history_points, history_asof, current_point,
                  current_phase, page >>

\* lines 395-410: the POST; a failed request exits 1, otherwise main returns
UpdateWordPress ==
  /\ pc = "publish"
  /\ page' = [sent |-> TRUE, phase |-> current_phase]
  /\ \/ pc' = "done" /\ UNCHANGED exit_status
     \/ Exit(ErrorExit)
  /\ UNCHANGED << feed, df, today, gate, dates, i, target, asof, vec, calls,
                  history_points, history_asof, current_point, current_phase,
                  chart >>

Next ==
  \/ LoadSecrets
  \/ GetMarketData
  \/ CheckMarket
  \/ Sample
  \/ Current
  \/ ClassifyPhase
  \/ WriteChart
  \/ UpdateWordPress

Spec == Init /\ [][Next]_vars

(* ---------------------------------------------------------------------- *)
(* 8. Properties                                                           *)
(* ---------------------------------------------------------------------- *)

\* number of rows of the table dated on or before d
RowsUntil(d) == Cardinality({ k \in 1..Len(df.index) : df.index[k] <= d })

\* a calculate_vector call has been made and vec, asof are its result and date
Called == calls > 0 /\ asof # NoDate

\* the phase names
PhaseNames == { PHASES[k].name : k \in 1..Len(PHASES) }

\* C1: the gate reports stale data exactly when today - latest_date > 1;
\* a difference of 1 proceeds, a difference of 2 aborts.
C1_FreshnessGate ==
  (gate # "pending" /\ today # NoDate) =>
    LET diff == today - Latest(df)
    IN  /\ gate = "stale" <=> diff > 1
        /\ gate = "open" <=> diff <= 1
        /\ diff = 1 => gate = "open"
        /\ diff = 2 => gate = "stale"

C1_Witness == gate = "open" /\ today = Latest(df) + 1

\* C2: a run whose gate reports stale data ends with exit status 0 and has
\* computed no vector, written no chart and sent no request; whatever
\* computes, writes or sends does so after an open gate.
C2_StaleAbort ==
  /\ gate = "stale" =>
       /\ pc = "done" /\ exit_status = 0
       /\ calls = 0 /\ history_points = << >>
       /\ ~chart.written /\ ~page.sent
  /\ (calls > 0 \/ chart.written \/ page.sent) => gate = "open"

C2_Witness == gate = "stale" /\ pc = "done" /\ today = Latest(df) + 2

\* C3: no vector at the latest date halts the run with a failure status
\* before any phase, file or request; no vector at a historical sample date
\* leaves the trajectory as it is and the loop goes on to the next target.
C3_State ==
  /\ (pc = "done" /\ gate = "open" /\ vec.none) =>
       /\ exit_status = 1 /\ asof = Latest(df)
       /\ current_phase = Unknown /\ ~chart.written /\ ~page.sent
  /\ (pc \in {"classify", "write", "publish"} \/ chart.written \/ page.sent
        \/ current_phase # Unknown) =>
       ~vec.none /\ asof = Latest(df)

C3_Step ==
  (pc = "sample" /\ i <= Len(dates) /\ asof' # NoDate /\ vec'.none) =>
    /\ history_points' = history_points
    /\ pc' = "sample" /\ i' = i + 1 /\ exit_status' = exit_status

C3_NoVector == [] C3_State /\ [][C3_Step]_vars

C3_Witness ==
  /\ gate = "open" /\ pc = "done" /\ exit_status = 1
  /\ vec.none /\ asof = Latest(df)
  /\ calls > 1 /\ history_points = << >>

C6_PhaseTotal ==
  /\ (pc \in {"write", "publish"} \/ page.sent) =>
       /\ current_phase \in PhaseNames
       /\ Cardinality({ k \in 1..Len(PHASES) :
             /\ (PHASES[k].x_sign = 1) <=> (vec.x # NaN /\ vec.x >= 0)
             /\ (PHASES[k].y_sign = 1) <=> (vec.y # NaN /\ vec.y >= 0) }) = 1
       /\ (vec.x # NaN /\ vec.y # NaN) =>
            current_phase =
              IF vec.x >= 0
              THEN (IF vec.y >= 0 THEN "Expansion" ELSE "Slowdown")
              ELSE (IF vec.y >= 0 THEN "Recovery" ELSE "Recession")
  /\ page.sent => page.phase = current_phase /\ page.phase # Unknown

C6_Witness ==
  page.sent /\ vec.x = 0 /\ vec.y = 0 /\ page.phase = "Expansion"

\* C7: the as-of date of a target is the largest date of the table that is
\* <= the target, the target itself when the table has it; a target with no
\* date <= it is skipped: no point, no call, no exit.
C7_State ==
  (pc = "sample" /\ i > 1) =>
    LET earlier == { k \in 1..Len(df.index) : df.index[k] <= target }
    IN  /\ target = dates[i - 1]
        /\ IF earlier = {} THEN asof = NoDate
           ELSE /\ \E k \in earlier : df.index[k] = asof
                /\ \A k \in earlier : df.index[k] <= asof
                /\ asof <= target

C7_Step ==
  (pc = "sample" /\ i <= Len(dates) /\ asof' = NoDate) =>
    /\ history_points' = history_points /\ calls' = calls
    /\ pc' = "sample" /\ i' = i + 1 /\ exit_status' = exit_status

C7_Resolution == [] C7_State /\ [][C7_Step]_vars

C7_Witness ==
  /\ pc = "sample" /\ i > 1 /\ asof # NoDate /\ asof < target
  /\ target % 7 \in {5, 6}

\* C8: a published trajectory is not empty, its as-of dates never decrease,
\* and it ends with the rounded current point of the latest date, appended
\* even when it equals the last sampled point; points are only appended.
C8_State ==
  /\ Len(history_asof) = Len(history_points)
  /\ \A a, b \in 1..Len(history_asof) : a < b => history_asof[a] <= history_asof[b]
  /\ chart.written =>
       /\ Len(chart.history) >= 1
       /\ chart.history[Len(chart.history)] = chart.current
       /\ chart.current = [x |-> Round2(vec.x), y |-> Round2(vec.y)]
       /\ asof = Latest(df)
       /\ history_asof[Len(history_asof)] = Latest(df)
       /\ Len(history_asof) = Len(chart.history)

C8_Step ==
  /\ Len(history_points') >= Len(history_points)
  /\ SubSeq(history_points', 1, Len(history_points)) = history_points

C8_Trajectory == [] C8_State /\ [][C8_Step]_vars

C8_Witness ==
  /\ chart.written /\ Len(chart.history) >= 2
  /\ chart.history[Len(chart.history) - 1] = chart.current

\* C9 as claimed: the window start and the window end are both target dates.
C9_BothEnds ==
  gate = "open" =>
    /\ \E k \in 1..Len(dates) : dates[k] = Latest(df) - 365
    /\ \E k \in 1..Len(dates) : dates[k] = Latest(df)

\* C9 amended: the targets are the 37 dates start, start + 10, ...,
\* start + 360 with start = latest - 365: the window start is a target, the
\* last target is 5 days before the latest date and the latest date is not
\* a target.
C9_Targets ==
  gate = "open" =>
    /\ Len(dates) = 37
    /\ dates[1] = Latest(df) - 365
    /\ \A k \in 1..36 : dates[k + 1] = dates[k] + 10
    /\ dates[37] = Latest(df) - 5
    /\ \A k \in 1..37 : dates[k] # Latest(df)

C9_Witness ==
  gate = "open" /\ pc = "sample" /\ i = 38 /\ target = Latest(df) - 5

\* C10: the published phase is the phase of the published (rounded) current
\* point under the same sign rule.
C10_LabelMatchesPoint ==
  page.sent => page.phase = Classify(chart.current.x, chart.current.y)

====
